---- MODULE Spec2Model ----
(***************************************************************************)
(* Sentence-dataset pipeline of sentifm: prune.py (normalise, filter and   *)
(* dedupe the rows of a table) and split.py (label sentences against BRAT  *)
(* entity spans and split them into sentence-like pieces).                 *)
(*                                                                         *)
(* A text is a sequence of characters; a character is a one-character      *)
(* string, or a name for a character that has no plain spelling here:      *)
(* "TAB", "NL", "LSQUO", "RSQUO", "LDQUO", "RDQUO" (U+2018, U+2019,        *)
(* U+201C, U+201D), "EMDASH" (U+2014), "ENDASH" (U+2013).                  *)
(***************************************************************************)
EXTENDS Integers, Sequences, FiniteSets, TLC

VARIABLES
    \* one call of a pure function: its arguments, its result
    call, ret, returned,
    \* prune.py main: the input table, the options, the locals of main
    rows, args, text_col, total_input, kept_after_filter, kept_after_dedupe,
    reasons, seen, f_out, row_i, frac, run, first_out, pc,
    \* split.py main: the options, the document at hand, the locals of main
    sargs, doc_i, doc, ev_spans, sent_i, sent_id, y, types_str, pieces,
    w_rows, origin, wrote, spc

fnVars == <<call, ret, returned>>

pruneVars ==
    <<rows, args, text_col, total_input, kept_after_filter, kept_after_dedupe,
      reasons, seen, f_out, row_i, frac, run, first_out, pc>>

splitVars ==
    <<sargs, doc_i, doc, ev_spans, sent_i, sent_id, y, types_str, pieces,
      w_rows, origin, wrote, spc>>

vars == <<fnVars, pruneVars, splitVars>>

(***************************************************************************)
(* Characters                                                              *)
(***************************************************************************)
LowerLetters ==
    <<"a","b","c","d","e","f","g","h","i","j","k","l","m",
      "n","o","p","q","r","s","t","u","v","w","x","y","z">>

UpperLetters ==
    <<"A","B","C","D","E","F","G","H","I","J","K","L","M",
      "N","O","P","Q","R","S","T","U","V","W","X","Y","Z">>

LowerSet == {LowerLetters[i] : i \in 1..26}

UpperSet == {UpperLetters[i] : i \in 1..26}

DigitSet == {"0","1","2","3","4","5","6","7","8","9"}

\* str.lower() / re.IGNORECASE on one character
ToLower(c) ==
    IF c \in UpperSet
    THEN LowerLetters[CHOOSE i \in 1..26 : UpperLetters[i] = c]
    ELSE c

\* str.upper() on one character
ToUpper(c) ==
    IF c \in LowerSet
    THEN UpperLetters[CHOOSE i \in 1..26 : LowerLetters[i] = c]
    ELSE c

IsLetter(c) == c \in LowerSet \/ c \in UpperSet

IsDigit(c) == c \in DigitSet

\* \s of re, str.isspace(): the whitespace of the modelled alphabet
IsSpace(c) == c \in {" ", "TAB", "NL"}

\* \w of re
IsWord(c) == IsLetter(c) \/ IsDigit(c) \/ c = "_"

Lower(t) == [i \in 1..Len(t) |-> ToLower(t[i])]

Upper(t) == [i \in 1..Len(t) |-> ToUpper(t[i])]

\* every character of t[i..j] satisfies P (true of an empty range)
AllIn(t, i, j, P(_)) == \A k \in i..j : k \in 1..Len(t) /\ P(t[k])

\* the literal lit (lower case) occurs in t at position i, ignoring case
HasAt(t, i, lit) ==
    /\ i >= 1
    /\ i + Len(lit) - 1 <= Len(t)
    /\ \A k \in 1..Len(lit) : ToLower(t[i + k - 1]) = lit[k]

\* \b of re between t[j] and t[j+1] (j = 0 is the start, j = Len(t) the end)
WordAt(t, j) == j \in 1..Len(t) /\ IsWord(t[j])

WordBoundary(t, j) == WordAt(t, j) # WordAt(t, j + 1)

(***************************************************************************)
(* prune.py: normalize_text                                                *)
(***************************************************************************)
\* str.strip()
Strip(s) ==
    LET idx == {i \in 1..Len(s) : ~IsSpace(s[i])}
    IN  IF idx = {} THEN <<>>
        ELSE SubSeq(s, CHOOSE i \in idx : \A j \in idx : i <= j,
                       CHOOSE i \in idx : \A j \in idx : i >= j)

\* the four .replace() calls on curly quotes
ReplaceQuotes(s) ==
    [i \in 1..Len(s) |->
        IF s[i] \in {"LSQUO", "RSQUO"} THEN "'"
        ELSE IF s[i] \in {"LDQUO", "RDQUO"} THEN "\""
        ELSE s[i]]

\* WS_RE.sub(" ", s): every maximal whitespace run becomes one space
RECURSIVE WsSubFrom(_, _)
WsSubFrom(s, i) ==
    IF i > Len(s) THEN <<>>
    ELSE IF ~IsSpace(s[i]) THEN <<s[i]>> \o WsSubFrom(s, i + 1)
    ELSE IF i > 1 /\ IsSpace(s[i - 1]) THEN WsSubFrom(s, i + 1)
    ELSE <<" ">> \o WsSubFrom(s, i + 1)

\* the collapse done as one pass of s.replace("  ", " ") over blanks: each
\* pair of whitespace characters becomes one space, a run of three leaves two
RECURSIVE WsSub_PairsOnceFrom(_, _)
WsSub_PairsOnceFrom(s, i) ==
    IF i > Len(s) THEN <<>>
    ELSE IF ~IsSpace(s[i]) THEN <<s[i]>> \o WsSub_PairsOnceFrom(s, i + 1)
    ELSE IF i < Len(s) /\ IsSpace(s[i + 1])
         THEN <<" ">> \o WsSub_PairsOnceFrom(s, i + 2)
         ELSE <<" ">> \o WsSub_PairsOnceFrom(s, i + 1)

WsSub_PairsOnce(s) == WsSub_PairsOnceFrom(s, 1)

WsSub(s) == WsSubFrom(s, 1)

normalize_text(s) == WsSub(ReplaceQuotes(Strip(s)))

\* len(t.split()): the number of maximal runs of non-whitespace
TokenCount(t) ==
    Cardinality({i \in 1..Len(t) :
        ~IsSpace(t[i]) /\ (i = 1 \/ IsSpace(t[i - 1]))})

(***************************************************************************)
(* prune.py: the module's regular expressions, as searches/matches         *)
(***************************************************************************)
NonSpaceAt(t, i) == i \in 1..Len(t) /\ ~IsSpace(t[i])

\* URL_RE.search: (https?://|www\.)\S+ , IGNORECASE
URL_RE(t) ==
    \E i \in 1..Len(t) :
        \/ HasAt(t, i, <<"h","t","t","p",":","/","/">>) /\ NonSpaceAt(t, i + 7)
        \/ HasAt(t, i, <<"h","t","t","p","s",":","/","/">>) /\ NonSpaceAt(t, i + 8)
        \/ HasAt(t, i, <<"w","w","w",".">>) /\ NonSpaceAt(t, i + 4)

\* [\w\.-]
IsMailChar(c) == IsWord(c) \/ c = "." \/ c = "-"

\* EMAIL_RE.search: \b[\w\.-]+@[\w\.-]+\.\w+\b , IGNORECASE
\* (a: start of the local part, p: the "@", q: the last ".", e: the end)
EMAIL_RE(t) ==
    \E p \in {i \in 1..Len(t) : t[i] = "@"} :
        /\ \E a \in 1..(p - 1) :
              WordBoundary(t, a - 1) /\ AllIn(t, a, p - 1, IsMailChar)
        /\ \E q \in {i \in (p + 2)..Len(t) : t[i] = "."} :
              /\ AllIn(t, p + 1, q - 1, IsMailChar)
              /\ \E e \in (q + 1)..Len(t) :
                    AllIn(t, q + 1, e, IsWord) /\ WordBoundary(t, e)

\* FT_LINK_RE.search: \b(ft\.com|www\.ft\.com)\b , IGNORECASE
FT_LINK_RE(t) ==
    \E i \in 1..Len(t) :
        /\ WordBoundary(t, i - 1)
        /\ \/ HasAt(t, i, <<"f","t",".","c","o","m">>) /\ WordBoundary(t, i + 5)
           \/ /\ HasAt(t, i, <<"w","w","w",".","f","t",".","c","o","m">>)
              /\ WordBoundary(t, i + 9)

\* [A-Za-z\.\- ]
IsNameChar(c) == IsLetter(c) \/ c = "." \/ c = "-" \/ c = " "

\* BYLINE_RE.match:
\* ^\s*by\s+[A-Z][A-Za-z\.\- ]+(and\s+[A-Z][A-Za-z\.\- ]+)?\s*$ , IGNORECASE
BYLINE_RE(t) ==
    LET n == Len(t)
    IN  \E a \in {i \in 0..n : AllIn(t, 1, i, IsSpace) /\ HasAt(t, i + 1, <<"b","y">>)} :
          \E b \in {i \in (a + 3)..(n - 2) : AllIn(t, a + 3, i, IsSpace)} :
            /\ IsLetter(t[b + 1])
            /\ \E c \in {i \in (b + 2)..n : AllIn(t, b + 2, i, IsNameChar)} :
                 \/ AllIn(t, c + 1, n, IsSpace)
                 \/ /\ HasAt(t, c + 1, <<"a","n","d">>)
                    /\ \E d \in {i \in (c + 4)..(n - 2) : AllIn(t, c + 4, i, IsSpace)} :
                         /\ IsLetter(t[d + 1])
                         /\ \E e \in {i \in (d + 2)..n : AllIn(t, d + 2, i, IsNameChar)} :
                              AllIn(t, e + 1, n, IsSpace)

AdditionalReportingBy ==
    <<"a","d","d","i","t","i","o","n","a","l"," ",
      "r","e","p","o","r","t","i","n","g"," ","b","y">>

\* ADDL_REPORTING_RE.match: ^\s*additional reporting by\b , IGNORECASE
ADDL_REPORTING_RE(t) ==
    \E a \in 0..Len(t) :
        /\ AllIn(t, 1, a, IsSpace)
        /\ HasAt(t, a + 1, AdditionalReportingBy)
        /\ WordBoundary(t, a + Len(AdditionalReportingBy))

\* SEE_LEX_RE.match: ^\s*see\s+lex\b , IGNORECASE
SEE_LEX_RE(t) ==
    \E a \in {i \in 0..Len(t) : AllIn(t, 1, i, IsSpace) /\ HasAt(t, i + 1, <<"s","e","e">>)} :
        \E b \in {i \in (a + 4)..Len(t) : AllIn(t, a + 4, i, IsSpace)} :
            HasAt(t, b + 1, <<"l","e","x">>) /\ WordBoundary(t, b + 3)

DayWords ==
    { <<"m","o","n","d","a","y">>, <<"t","u","e","s","d","a","y">>,
      <<"w","e","d","n","e","s","d","a","y">>, <<"t","h","u","r","s","d","a","y">>,
      <<"f","r","i","d","a","y">>, <<"s","a","t","u","r","d","a","y">>,
      <<"s","u","n","d","a","y">>, <<"t","o","m","o","r","r","o","w">>,
      <<"t","o","d","a","y">>, <<"y","e","s","t","e","r","d","a","y">> }

\* DAY_RE.match: ^\s*(monday|...|yesterday)\s*$ , IGNORECASE
DAY_RE(t) ==
    \E a \in 0..Len(t), w \in DayWords :
        /\ AllIn(t, 1, a, IsSpace)
        /\ HasAt(t, a + 1, w)
        /\ AllIn(t, a + Len(w) + 1, Len(t), IsSpace)

\* [A-Z0-9]
IsCapOrDigit(c) == c \in UpperSet \/ IsDigit(c)

\* [A-Z0-9 &/\-,'\.]
IsHeaderChar(c) == IsCapOrDigit(c) \/ c \in {" ", "&", "/", "-", ",", "'", "."}

\* ALLCAPS_HEADER_RE.match: ^[A-Z0-9][A-Z0-9 &/\-,'\.]{2,}$
ALLCAPS_HEADER_RE(t) ==
    /\ Len(t) >= 3
    /\ IsCapOrDigit(t[1])
    /\ AllIn(t, 2, Len(t), IsHeaderChar)

(***************************************************************************)
(* prune.py: is_digit_heavy and looks_like_sentence                        *)
(***************************************************************************)
DigitMin == 8

\* the ratio bound 0.25, as ratio > 1/RatioDen
RatioDen == 4

DigitCount(t) == Cardinality({i \in 1..Len(t) : IsDigit(t[i])})

is_digit_heavy(t) ==
    /\ Len(t) > 0
    /\ DigitCount(t) >= DigitMin
    /\ RatioDen * DigitCount(t) > Len(t)

Verdict(ok, reason) == [ok |-> ok, reason |-> reason]

\* the rules of the cascade, on the normalised text t
RuleEmpty(t) == Len(t) = 0

RuleShortChars(t, cfg) == Len(t) < cfg.min_chars

RuleUrlOrEmail(t) == URL_RE(t) \/ EMAIL_RE(t) \/ FT_LINK_RE(t)

RuleBoilerplate(t) ==
    BYLINE_RE(t) \/ ADDL_REPORTING_RE(t) \/ SEE_LEX_RE(t) \/ DAY_RE(t)

RuleAllcaps(t) == ALLCAPS_HEADER_RE(t) /\ t = Upper(t)

RuleDigitHeavy(t, cfg) == cfg.enable_digit_heavy /\ is_digit_heavy(t)

\* the token test off by one: len(toks) <= min_tokens
RuleShortTokens_OffByOne(t, cfg) == TokenCount(t) <= cfg.min_tokens

RuleShortTokens(t, cfg) == TokenCount(t) < cfg.min_tokens

RuleTooLong(t, cfg) == TokenCount(t) > cfg.max_tokens

\* the cascade with the token-count test moved up beside the character test
looks_like_sentence_TokensEarly(text, cfg) ==
    LET t == normalize_text(text)
    IN  IF RuleEmpty(t) THEN Verdict(FALSE, "empty")
        ELSE IF RuleShortChars(t, cfg) THEN Verdict(FALSE, "too_short")
        ELSE IF RuleShortTokens(t, cfg) THEN Verdict(FALSE, "too_short")
        ELSE IF RuleUrlOrEmail(t) THEN Verdict(FALSE, "url_or_email")
        ELSE IF RuleBoilerplate(t) THEN Verdict(FALSE, "boilerplate")
        ELSE IF RuleAllcaps(t) THEN Verdict(FALSE, "allcaps_header")
        ELSE IF RuleDigitHeavy(t, cfg) THEN Verdict(FALSE, "digit_heavy")
        ELSE IF RuleTooLong(t, cfg) THEN Verdict(FALSE, "too_long")
        ELSE Verdict(TRUE, "ok")

looks_like_sentence(text, cfg) ==
    LET t == normalize_text(text)
    IN  IF RuleEmpty(t) THEN Verdict(FALSE, "empty")
        ELSE IF RuleShortChars(t, cfg) THEN Verdict(FALSE, "too_short")
        ELSE IF RuleUrlOrEmail(t) THEN Verdict(FALSE, "url_or_email")
        ELSE IF RuleBoilerplate(t) THEN Verdict(FALSE, "boilerplate")
        ELSE IF RuleAllcaps(t) THEN Verdict(FALSE, "allcaps_header")
        ELSE IF RuleDigitHeavy(t, cfg) THEN Verdict(FALSE, "digit_heavy")
        ELSE IF RuleShortTokens(t, cfg) THEN Verdict(FALSE, "too_short")
        ELSE IF RuleTooLong(t, cfg) THEN Verdict(FALSE, "too_long")
        ELSE Verdict(TRUE, "ok")

(***************************************************************************)
(* split.py: normalize_ws, overlaps, SPLIT_RE, split_sentence_like         *)
(***************************************************************************)
\* WS_RE.sub(" ", s).strip()
normalize_ws(s) == Strip(WsSub(s))

\* overlaps with closed comparisons: touching intervals overlap
overlaps_Closed(a0, a1, b0, b1) == (a0 <= b1) /\ (b0 <= a1)

overlaps(a0, a1, b0, b1) == (a0 < b1) /\ (b0 < a1)

\* the length of the maximal whitespace run that starts at i (\s+)
RECURSIVE SpaceRunLen(_, _)
SpaceRunLen(t, i) ==
    IF i <= Len(t) /\ IsSpace(t[i]) THEN 1 + SpaceRunLen(t, i + 1) ELSE 0

\* the length of the maximal newline run that starts at i (\n+)
RECURSIVE NewlineRunLen(_, _)
NewlineRunLen(t, i) ==
    IF i <= Len(t) /\ t[i] = "NL" THEN 1 + NewlineRunLen(t, i + 1) ELSE 0

\* the lookbehinds of SPLIT_RE: (?<=;) (?<=:) (?<=—) (?<=–) (?<=--)
AfterDelimiter(t, i) ==
    \/ i >= 2 /\ t[i - 1] \in {";", ":", "EMDASH", "ENDASH"}
    \/ i >= 3 /\ t[i - 1] = "-" /\ t[i - 2] = "-"

\* the length of SPLIT_RE's match starting at i, 0 when it does not match
\* there: \s+ behind a delimiter, else \n+
SplitMatchLen(t, i) ==
    IF IsSpace(t[i]) /\ AfterDelimiter(t, i) THEN SpaceRunLen(t, i)
    ELSE NewlineRunLen(t, i)

\* SPLIT_RE.split(t): scanning at i, the current part starts at from
RECURSIVE ReSplitFrom(_, _, _)
ReSplitFrom(t, i, from) ==
    IF i > Len(t) THEN <<SubSeq(t, from, Len(t))>>
    ELSE LET m == SplitMatchLen(t, i)
         IN  IF m > 0
             THEN <<SubSeq(t, from, i - 1)>> \o ReSplitFrom(t, i + m, i + m)
             ELSE ReSplitFrom(t, i + 1, from)

SPLIT_RE_split(t) == ReSplitFrom(t, 1, 1)

\* str.split(", ")
RECURSIVE CommaSplitFrom(_, _, _)
CommaSplitFrom(s, i, from) ==
    IF i >= Len(s) THEN <<SubSeq(s, from, Len(s))>>
    ELSE IF s[i] = "," /\ s[i + 1] = " "
         THEN <<SubSeq(s, from, i - 1)>> \o CommaSplitFrom(s, i + 2, i + 2)
         ELSE CommaSplitFrom(s, i + 1, from)

CommaSplit(s) == CommaSplitFrom(s, 1, 1)

\* str.isspace()
IsSpaceStr(p) == Len(p) > 0 /\ \A k \in 1..Len(p) : IsSpace(p[k])

\* [p for p in SPLIT_RE.split(t) if p and not p.isspace()]
SplitParts(t) ==
    LET Keep(p) == Len(p) > 0 /\ ~IsSpaceStr(p)
    IN  SelectSeq(SPLIT_RE_split(t), Keep)

\* [normalize_ws(x) for x in p2.split(", ") if x]
SubParts(p2) ==
    LET NonEmpty(x) == Len(x) > 0
        xs == SelectSeq(CommaSplit(p2), NonEmpty)
    IN  [k \in 1..Len(xs) |-> normalize_ws(xs[k])]

\* the test on a sub-fragment without its upper bound: min_len <= len(sp)
SubPartKept_NoMax(sp, min_len, max_chars) == min_len <= Len(sp)

\* the test on a sub-fragment: min_len <= len(sp) <= max_chars
SubPartKept(sp, min_len, max_chars) == min_len <= Len(sp) /\ Len(sp) <= max_chars

\* what one part of the extra split appends to out
PartOut(p, min_len, max_chars) ==
    LET p2 == normalize_ws(p)
        Kept(sp) == SubPartKept(sp, min_len, max_chars)
    IN  IF Len(p2) < min_len THEN <<>>
        ELSE IF Len(p2) > max_chars THEN SelectSeq(SubParts(p2), Kept)
        ELSE <<p2>>

RECURSIVE PartsOut(_, _, _, _)
PartsOut(parts, k, min_len, max_chars) ==
    IF k > Len(parts) THEN <<>>
    ELSE PartOut(parts[k], min_len, max_chars)
            \o PartsOut(parts, k + 1, min_len, max_chars)

split_sentence_like(text, min_len, max_chars, extra_split) ==
    IF ~extra_split
    THEN LET t2 == normalize_ws(text)
         IN  IF Len(t2) >= min_len /\ Len(t2) <= max_chars THEN <<t2>> ELSE <<>>
    ELSE PartsOut(SplitParts(text), 1, min_len, max_chars)

(***************************************************************************)
(* States of the parts a specification does not run                        *)
(***************************************************************************)
FnIdle == call = <<>> /\ ret = <<>> /\ returned = FALSE

PruneIdle ==
    /\ rows = <<>> /\ args = <<>> /\ text_col = 0 /\ total_input = 0
    /\ kept_after_filter = 0 /\ kept_after_dedupe = 0 /\ reasons = <<>>
    /\ seen = {} /\ f_out = <<>> /\ row_i = 0 /\ frac = <<>> /\ run = 0
    /\ first_out = <<>> /\ pc = "idle"

SplitIdle ==
    /\ sargs = <<>> /\ doc_i = 0 /\ doc = <<>> /\ ev_spans = <<>>
    /\ sent_i = 0 /\ sent_id = 0 /\ y = 0 /\ types_str = <<>>
    /\ pieces = <<>> /\ w_rows = <<>> /\ origin = <<>> /\ wrote = 0
    /\ spc = "idle"

\* every text over alphabet of length at most n
TextsUpTo(alphabet, n) == UNION {[1..k -> alphabet] : k \in 0..n}

(***************************************************************************)
(* overlaps, called on every pair of integer intervals of a small range    *)
(***************************************************************************)
MaxOffset == 3

Offsets == (0 - 1)..MaxOffset

InitOverlaps ==
    /\ call \in [a0 : Offsets, a1 : Offsets, b0 : Offsets, b1 : Offsets]
    /\ ret = FALSE /\ returned = FALSE
    /\ PruneIdle /\ SplitIdle

CallOverlaps ==
    /\ ~returned
    /\ ret' = overlaps(call.a0, call.a1, call.b0, call.b1)
    /\ returned' = TRUE
    /\ UNCHANGED <<call, pruneVars, splitVars>>

NextOverlaps == CallOverlaps

SpecOverlaps == InitOverlaps /\ [][NextOverlaps]_vars

\* the half-open intervals [a0,a1) and [b0,b1) share a position
SharePosition(a0, a1, b0, b1) ==
    \E x \in Offsets : a0 <= x /\ x < a1 /\ b0 <= x /\ x < b1

\* C7 as stated: overlaps is symmetric and is half-open overlap for all
\* integer arguments: true exactly when the two intervals share a position,
\* hence false for touching intervals and false whenever either interval
\* has zero length.
C7_Original ==
    returned =>
        /\ ret = overlaps(call.b0, call.b1, call.a0, call.a1)
        /\ ret = SharePosition(call.a0, call.a1, call.b0, call.b1)
        /\ (call.a0 = call.a1 \/ call.b0 = call.b1 => ret = FALSE)

\* C7 amended: overlaps is symmetric; on two intervals of positive length it
\* is half-open overlap (true exactly when they share a position, so false
\* when they only touch, true for (0,2),(1,3) and (0,2),(0,2)); two
\* zero-length intervals never overlap; a zero-length interval [p,p) is
\* reported to overlap an interval of positive length exactly when p lies
\* strictly inside it.
C7_OverlapsHalfOpen ==
    returned =>
        /\ ret = overlaps(call.b0, call.b1, call.a0, call.a1)
        /\ (call.a0 < call.a1 /\ call.b0 < call.b1
                => ret = SharePosition(call.a0, call.a1, call.b0, call.b1))
        /\ (call = [a0 |-> 0, a1 |-> 2, b0 |-> 2, b1 |-> 3] => ret = FALSE)
        /\ (call = [a0 |-> 0, a1 |-> 2, b0 |-> 1, b1 |-> 3] => ret = TRUE)
        /\ (call = [a0 |-> 0, a1 |-> 2, b0 |-> 0, b1 |-> 2] => ret = TRUE)
        /\ (call.a0 = call.a1 /\ call.b0 = call.b1 => ret = FALSE)
        /\ (call.a0 = call.a1 /\ call.b0 < call.b1
                => ret = (call.b0 < call.a0 /\ call.a0 < call.b1))
        /\ (call.b0 = call.b1 /\ call.a0 < call.a1
                => ret = (call.a0 < call.b0 /\ call.b0 < call.a1))

\* a zero-length interval strictly inside the other one is reported to overlap
C7_Witness ==
    /\ returned /\ ret = TRUE
    /\ call.a0 = call.a1 /\ call.b0 < call.a0 /\ call.a0 < call.b1

(***************************************************************************)
(* looks_like_sentence, called on every text of a small alphabet and on    *)
(* sample texts, under small thresholds and under the defaults             *)
(***************************************************************************)
MaxTextLen == 4

DefaultMinTokens == 4

DefaultMinChars == 12

DefaultMaxTokens == 80

TxtUrl == <<"h","t","t","p",":","/","/","x",".","y">>

TxtUrlLong == <<"s","e","e"," ","h","t","t","p","s",":","/","/","a",".","b","/","c","d","e","f","g","h">>

TxtWww == <<"a"," ","W","W","W",".","b"," ","c">>

TxtEmail == <<"m","a","i","l"," ","a","@","b",".","c","d"," ","n","o","w">>

TxtFtLink == <<"r","e","a","d"," ","F","T",".","c","o","m"," ","t","o","d","a","y"," ","o","k">>

TxtByline == <<"B","y"," ","J","a","n","e"," ","D","o","e">>

TxtBylineAnd == <<"b","y"," ","A","l"," ","K","o"," ","a","n","d"," ","B","o"," ","L","i">>

TxtAddl == <<"A","d","d","i","t","i","o","n","a","l"," ","r","e","p","o","r","t","i","n","g"," ","b","y"," ","A","l">>

TxtSeeLex == <<"S","e","e"," "," ","L","e","x"," ","c","o","l","u","m","n">>

TxtDay == <<"Y","e","s","t","e","r","d","a","y">>

TxtHeader == <<"B","A","N","K","S"," ","&"," ","C","O",".">>

TxtDigits == <<"1","2","3","4"," ","5","6","7","8"," ","a","9">>

TxtDigitsThin == <<"1","2","3","4","5","6","7","8"," ","a","b","c","d","e","f","g","h","i","j","k","l","m","n","o","p","q","r","s","t","u","v","w","x">>

TxtSentence == <<"P","r","o","f","i","t","s"," ","r","o","s","e"," ","s","h","a","r","p","l","y",".">>

TxtQuoted == <<" ","LDQUO","A","a","RDQUO"," ","TAB","NL"," ","i","t","RSQUO","s"," "," ","o","k"," ">>

TxtTwelve == <<"a","b"," ","c","d"," ","e","f"," ","g","h","i">>

TxtEleven == <<"a","b"," ","c","d"," ","e","f"," ","g","h">>

TxtThreeTok == <<"a","b","c","d"," ","e","f","g"," ","h","i","j","k">>

SampleTexts ==
    {TxtUrl, TxtUrlLong, TxtWww, TxtEmail, TxtFtLink, TxtByline, TxtBylineAnd,
     TxtAddl, TxtSeeLex, TxtDay, TxtHeader, TxtDigits, TxtDigitsThin,
     TxtSentence, TxtQuoted, TxtTwelve, TxtEleven, TxtThreeTok}

FilterTexts == TextsUpTo({"a", "A", " ", "1"}, MaxTextLen) \cup SampleTexts

FilterCfgs ==
    [min_tokens : 0..DefaultMinTokens,
     min_chars : 0..MaxTextLen \cup {DefaultMinChars},
     max_tokens : {1, DefaultMaxTokens},
     enable_digit_heavy : BOOLEAN]

InitFilter ==
    /\ call \in [text : FilterTexts, cfg : FilterCfgs]
    /\ ret = Verdict(FALSE, "") /\ returned = FALSE
    /\ PruneIdle /\ SplitIdle

CallLooksLikeSentence ==
    /\ ~returned
    /\ ret' = looks_like_sentence(call.text, call.cfg)
    /\ returned' = TRUE
    /\ UNCHANGED <<call, pruneVars, splitVars>>

NextFilter == CallLooksLikeSentence

SpecFilter == InitFilter /\ [][NextFilter]_vars

\* the reason of the first rule of an ordered table that fires
FirstReason(fires, names) ==
    names[CHOOSE i \in 1..Len(fires) : fires[i] /\ \A j \in 1..(i - 1) : ~fires[j]]

\* C2 as stated: the reason is that of the earliest rejecting rule in the
\* order empty, too_short (too few characters or too few tokens),
\* url_or_email, boilerplate, allcaps_header, digit_heavy, too_long, ok; a
\* text that is too short by characters or by tokens and contains a URL is
\* rejected as too_short.
C2_Original ==
    returned =>
        LET t == normalize_text(call.text)
            c == call.cfg
        IN  /\ ret.reason = FirstReason(
                    <<RuleEmpty(t),
                      RuleShortChars(t, c) \/ RuleShortTokens(t, c),
                      RuleUrlOrEmail(t), RuleBoilerplate(t), RuleAllcaps(t),
                      RuleDigitHeavy(t, c), RuleTooLong(t, c), TRUE>>,
                    <<"empty", "too_short", "url_or_email", "boilerplate",
                      "allcaps_header", "digit_heavy", "too_long", "ok">>)
            /\ (~RuleEmpty(t)
                    /\ (RuleShortChars(t, c) \/ RuleShortTokens(t, c))
                    /\ URL_RE(t)
                    => ret.reason = "too_short")

\* C2 amended: the reason is that of the earliest rejecting rule in the
\* order empty, too_short by characters, url_or_email, boilerplate,
\* allcaps_header, digit_heavy, too_short by tokens, too_long, else ok (and
\* the text is accepted exactly when the reason is ok); a text that is too
\* short by characters and contains a URL is rejected as too_short, and a
\* text that is long enough in characters, too short only by tokens, and
\* contains a URL is rejected as url_or_email.
C2_RuleOrder ==
    returned =>
        LET t == normalize_text(call.text)
            c == call.cfg
        IN  /\ ret.reason = FirstReason(
                    <<RuleEmpty(t), RuleShortChars(t, c),
                      RuleUrlOrEmail(t), RuleBoilerplate(t), RuleAllcaps(t),
                      RuleDigitHeavy(t, c), RuleShortTokens(t, c),
                      RuleTooLong(t, c), TRUE>>,
                    <<"empty", "too_short", "url_or_email", "boilerplate",
                      "allcaps_header", "digit_heavy", "too_short",
                      "too_long", "ok">>)
            /\ ret.ok = (ret.reason = "ok")
            /\ (~RuleEmpty(t) /\ RuleShortChars(t, c) /\ URL_RE(t)
                    => ret.reason = "too_short")
            /\ (~RuleShortChars(t, c) /\ RuleShortTokens(t, c) /\ URL_RE(t)
                    => ret.reason = "url_or_email")

\* a URL of enough characters and too few tokens, rejected as url_or_email
C2_Witness ==
    /\ returned /\ ret.reason = "url_or_email"
    /\ URL_RE(normalize_text(call.text))
    /\ Len(normalize_text(call.text)) >= call.cfg.min_chars
    /\ TokenCount(normalize_text(call.text)) < call.cfg.min_tokens

\* the text of the call is already normalised
CallTextNormalized == normalize_text(call.text) = call.text

\* one of the rules between the two too_short tests rejects t
MiddleRule(t, c) ==
    \/ RuleUrlOrEmail(t) \/ RuleBoilerplate(t)
    \/ RuleAllcaps(t) \/ RuleDigitHeavy(t, c)

\* C8 as stated: a normalised text of exactly min_tokens tokens and exactly
\* min_chars characters is accepted, and a normalised text with one token
\* fewer is rejected as too_short, for every min_tokens and min_chars
\* (stated here for non-empty texts only).
C8_Original ==
    returned /\ CallTextNormalized /\ call.text # <<>> =>
        /\ (TokenCount(call.text) = call.cfg.min_tokens
                /\ Len(call.text) = call.cfg.min_chars
                => ret = Verdict(TRUE, "ok"))
        /\ (TokenCount(call.text) = call.cfg.min_tokens - 1
                => ret = Verdict(FALSE, "too_short"))

\* C8 amended: a normalised text of exactly min_tokens tokens and exactly
\* min_chars characters is never rejected as too_short, and is accepted
\* unless it is empty or one of the other rules (url_or_email, boilerplate,
\* allcaps_header, digit_heavy, too_long) rejects it; a non-empty normalised
\* text with one token fewer than min_tokens is rejected, as too_short
\* unless url_or_email, boilerplate, allcaps_header or digit_heavy rejects
\* it first (which they can only when it has at least min_chars characters).
C8_TokenBoundary ==
    returned /\ CallTextNormalized =>
        LET t == call.text
            c == call.cfg
        IN  /\ (TokenCount(t) = c.min_tokens /\ Len(t) = c.min_chars
                    => /\ ret.reason # "too_short"
                       /\ ret.ok = ~(\/ RuleEmpty(t) \/ MiddleRule(t, c)
                                     \/ RuleTooLong(t, c)))
            /\ (TokenCount(t) = c.min_tokens - 1 /\ ~RuleEmpty(t)
                    => /\ ~ret.ok
                       /\ (ret.reason = "too_short") =
                            (Len(t) < c.min_chars \/ ~MiddleRule(t, c)))

\* a text on the boundary is accepted, with at least two tokens asked for
C8_Witness ==
    /\ returned /\ CallTextNormalized /\ ret.ok
    /\ call.cfg.min_tokens >= 2
    /\ TokenCount(call.text) = call.cfg.min_tokens
    /\ Len(call.text) = call.cfg.min_chars

(***************************************************************************)
(* split_sentence_like, called on every text of a small alphabet and on    *)
(* sample sentences                                                        *)
(***************************************************************************)
MaxSplitLen == 4

SentSemicolon == <<"a","b",";"," ","c","d",","," ","e","f">>

SentCommas == <<"a","a",","," ","b","b","b",","," ","c",":"," ","d","d">>

SentDashes == <<"a"," ","-","-"," ","b","EMDASH"," ","c"," ","ENDASH","TAB","d","-","-"," ","e">>

SentNewlines == <<"a","b",";","NL","NL","c","d","NL"," ","e"," ",","," ","f">>

SampleSentences == {SentSemicolon, SentCommas, SentDashes, SentNewlines}

SplitTexts ==
    TextsUpTo({"a", ";", ",", " ", "NL"}, MaxSplitLen) \cup SampleSentences

InitSplitFn ==
    /\ call \in [text : SplitTexts, min_len : 0..2,
                 max_chars : 0..MaxSplitLen \cup {6, 20},
                 extra_split : BOOLEAN]
    /\ ret = <<>> /\ returned = FALSE
    /\ PruneIdle /\ SplitIdle

CallSplitSentenceLike ==
    /\ ~returned
    /\ ret' = split_sentence_like(call.text, call.min_len, call.max_chars,
                                  call.extra_split)
    /\ returned' = TRUE
    /\ UNCHANGED <<call, pruneVars, splitVars>>

NextSplitFn == CallSplitSentenceLike

SpecSplitFn == InitSplitFn /\ [][NextSplitFn]_vars

Range(f) == {f[k] : k \in 1..Len(f)}

\* the fragments of the first level: the normalised parts cut at the delimiters
FirstLevel(text) == {normalize_ws(p) : p \in Range(SplitParts(text))}

\* the fragments of the second level: the normalised ", "-parts of the
\* first-level fragments that are longer than max_chars
SecondLevel(text, max_chars) ==
    UNION { {normalize_ws(x) : x \in Range(CommaSplit(q))} :
                q \in {f \in FirstLevel(text) : Len(f) > max_chars} }

\* C9: every fragment split_sentence_like returns has a length within
\* [min_len, max_chars]. Without extra_split the only possible fragment is
\* the whole normalised text. With extra_split every fragment is a
\* first-level fragment (a part cut at the delimiters) returned whole, or a
\* ", "-part of a first-level fragment longer than max_chars: a first-level
\* fragment within the bounds is always returned whole, and nothing comes
\* from a third level of splitting.
C9_FragmentsWithinBounds ==
    returned =>
        /\ \A k \in 1..Len(ret) :
              call.min_len <= Len(ret[k]) /\ Len(ret[k]) <= call.max_chars
        /\ ~call.extra_split =>
              /\ Len(ret) <= 1
              /\ \A k \in 1..Len(ret) : ret[k] = normalize_ws(call.text)
        /\ call.extra_split =>
              /\ Range(ret) \subseteq
                    FirstLevel(call.text) \cup SecondLevel(call.text, call.max_chars)
              /\ \A f \in FirstLevel(call.text) :
                    call.min_len <= Len(f) /\ Len(f) <= call.max_chars
                        => f \in Range(ret)

\* an over-long first-level fragment was split on ", ": one of its parts is
\* returned and another one, still out of bounds, is dropped
C9_Witness ==
    /\ returned /\ call.extra_split /\ Len(ret) >= 2
    /\ \E f \in FirstLevel(call.text) :
          /\ Len(f) > call.max_chars
          /\ \E k \in 1..Len(ret) : ret[k] \in Range(CommaSplit(f))
          /\ \E x \in Range(CommaSplit(f)) : Len(normalize_ws(x)) > call.max_chars

(***************************************************************************)
(* prune.py: find_text_col and main                                        *)
(*                                                                         *)
(* A table is the list of its rows as csv.reader yields them and           *)
(* csv.writer takes them; a row is the list of its cells, a data cell a    *)
(* text, a header cell a column name. text_col counts from 0 as in the     *)
(* source. frac is the kept fraction as the pair it is computed from       *)
(* (num / den), [num |-> 0, den |-> 0] before it is computed.              *)
(***************************************************************************)
MaxRows == 3

Reasons ==
    {"empty", "too_short", "too_long", "url_or_email", "boilerplate",
     "allcaps_header", "digit_heavy", "missing_text_col", "ok"}

\* find_text_col with the fallback column 0 in place of 2
find_text_col_FirstColumn(header_row) ==
    IF header_row = <<>> THEN 0
    ELSE IF \E i \in 1..Len(header_row) : header_row[i] = "text"
         THEN (CHOOSE i \in 1..Len(header_row) :
                  /\ header_row[i] = "text"
                  /\ \A j \in 1..(i - 1) : header_row[j] # "text") - 1
         ELSE 0

find_text_col(header_row) ==
    IF header_row = <<>> THEN 2
    ELSE IF \E i \in 1..Len(header_row) : header_row[i] = "text"
         THEN (CHOOSE i \in 1..Len(header_row) :
                  /\ header_row[i] = "text"
                  /\ \A j \in 1..(i - 1) : header_row[j] # "text") - 1
         ELSE 2

\* the key that never folds case
DedupeKey_NoFold(norm, a) == norm

\* key = norm if args.dedupe_case_sensitive else norm.lower()
DedupeKey(norm, a) == IF a.dedupe_case_sensitive THEN norm ELSE Lower(norm)

\* counting only the rejections
Count_RejectionsOnly(counter, reason) ==
    IF reason = "ok" THEN counter
    ELSE [counter EXCEPT ![reason] = @ + 1]

\* reasons[reason] += 1
Count(counter, reason) == [counter EXCEPT ![reason] = @ + 1]

\* out_row = list(row); out_row[text_col] = norm
OutRow(row, col, norm) == [row EXCEPT ![col + 1] = norm]

\* frac = (kept_after_dedupe / (total_input - 1)) if total_input > 1 else 0.0
KeptFraction(kept, total) ==
    IF total > 1 THEN [num |-> kept, den |-> total - 1]
    ELSE [num |-> 0, den |-> 1]

CellDoc == <<"d","o","c"," ","a">>

CellId0 == <<"0">>

CellId1 == <<"1">>

CellId2 == <<"2">>

CellId3 == <<"3">>

CellId4 == <<"4">>

TextPlain == <<"A","RSQUO","s"," ","b">>

TextSpaced == <<" ","A","RSQUO","s","TAB"," ","NL","b","NL">>

TextLower == <<"a","'","s"," ","b">>

TextShort == <<"a">>

\* data rows: a text, the same text up to white space and quotes, the same
\* text up to case, a text the filter rejects, a row without a third cell,
\* an empty row
RowChoices ==
    { <<CellDoc, CellId0, TextPlain>>,
      <<CellDoc, CellId1, TextSpaced>>,
      <<TextLower, CellId2, TextLower>>,
      <<CellDoc, CellId3, TextShort>>,
      <<CellDoc, CellId4>>,
      <<>> }

HeaderChoices ==
    { <<"doc", "sent_id", "text", "y_any_event", "types">>,
      <<"text", "sent_id", "label">>,
      <<"doc", "sent_id", "body">>,
      <<>> }

RowSeqs == UNION {[1..k -> RowChoices] : k \in 0..MaxRows}

ArgsChoices ==
    [min_tokens : {2}, min_chars : {3}, max_tokens : {3},
     enable_digit_heavy : {TRUE}, dedupe_case_sensitive : BOOLEAN]

NoReasons == [r \in Reasons |-> 0]

NoFraction == [num |-> 0, den |-> 0]

InitPrune ==
    /\ rows \in {<<>>} \cup {<<h>> \o d : h \in HeaderChoices, d \in RowSeqs}
    /\ args \in ArgsChoices
    /\ reasons = NoReasons /\ seen = {}
    /\ text_col = 0 /\ total_input = 0
    /\ kept_after_filter = 0 /\ kept_after_dedupe = 0
    /\ f_out = <<>> /\ row_i = 0 /\ frac = NoFraction
    /\ run = 1 /\ first_out = <<>> /\ pc = "start"
    /\ FnIdle /\ SplitIdle

\* lines 119-124: no row at all, the summary of zeros, no output file
EmptyInput ==
    /\ pc = "start" /\ rows = <<>>
    /\ frac' = [num |-> 0, den |-> 1]
    /\ pc' = "done"
    /\ UNCHANGED <<fnVars, splitVars>>
    /\ UNCHANGED <<rows, args, text_col, total_input, kept_after_filter,
                   kept_after_dedupe, reasons, seen, f_out, row_i, run, first_out>>

\* lines 126-137: the text column, the counters, the header row written
OpenOutput ==
    /\ pc = "start" /\ rows # <<>>
    /\ text_col' = find_text_col(rows[1])
    /\ total_input' = Len(rows)
    /\ kept_after_filter' = 0 /\ kept_after_dedupe' = 0
    /\ f_out' = <<rows[1]>>
    /\ row_i' = 0
    /\ pc' = "loop"
    /\ UNCHANGED <<fnVars, splitVars>>
    /\ UNCHANGED <<rows, args, reasons, seen, frac, run, first_out>>

\* the row the loop is at (data_rows = rows[1:])
AtRow == pc = "loop" /\ row_i < Len(rows) - 1

Row == rows[row_i + 2]

RowHasText == Row # <<>> /\ text_col < Len(Row)

RowVerdict == looks_like_sentence(Row[text_col + 1], args)

RowNorm == normalize_text(Row[text_col + 1])

\* lines 140-142: a row without the text column
SkipShortRow ==
    /\ AtRow /\ ~RowHasText
    /\ reasons' = Count(reasons, "missing_text_col")
    /\ row_i' = row_i + 1
    /\ UNCHANGED <<fnVars, splitVars>>
    /\ UNCHANGED <<rows, args, text_col, total_input, kept_after_filter,
                   kept_after_dedupe, seen, f_out, frac, run, first_out, pc>>

\* lines 144-154: a row the filter rejects
RejectRow ==
    /\ AtRow /\ RowHasText /\ ~RowVerdict.ok
    /\ reasons' = Count(reasons, RowVerdict.reason)
    /\ row_i' = row_i + 1
    /\ UNCHANGED <<fnVars, splitVars>>
    /\ UNCHANGED <<rows, args, text_col, total_input, kept_after_filter,
                   kept_after_dedupe, seen, f_out, frac, run, first_out, pc>>

\* lines 144-160: a row the filter accepts, whose key was seen
DropDuplicate ==
    /\ AtRow /\ RowHasText /\ RowVerdict.ok
    /\ DedupeKey(RowNorm, args) \in seen
    /\ reasons' = Count(reasons, RowVerdict.reason)
    /\ kept_after_filter' = kept_after_filter + 1
    /\ row_i' = row_i + 1
    /\ UNCHANGED <<fnVars, splitVars>>
    /\ UNCHANGED <<rows, args, text_col, total_input, kept_after_dedupe,
                   seen, f_out, frac, run, first_out, pc>>

\* lines 144-166: a row the filter accepts, whose key is new
WriteRow ==
    /\ AtRow /\ RowHasText /\ RowVerdict.ok
    /\ DedupeKey(RowNorm, args) \notin seen
    /\ reasons' = Count(reasons, RowVerdict.reason)
    /\ kept_after_filter' = kept_after_filter + 1
    /\ seen' = seen \cup {DedupeKey(RowNorm, args)}
    /\ kept_after_dedupe' = kept_after_dedupe + 1
    /\ f_out' = Append(f_out, OutRow(Row, text_col, RowNorm))
    /\ row_i' = row_i + 1
    /\ UNCHANGED <<fnVars, splitVars>>
    /\ UNCHANGED <<rows, args, text_col, total_input, frac, run, first_out, pc>>

\* lines 168-177: after the last row, the summary
Summary ==
    /\ pc = "loop" /\ row_i = Len(rows) - 1
    /\ frac' = KeptFraction(kept_after_dedupe, total_input)
    /\ pc' = "done"
    /\ UNCHANGED <<fnVars, splitVars>>
    /\ UNCHANGED <<rows, args, text_col, total_input, kept_after_filter,
                   kept_after_dedupe, reasons, seen, f_out, row_i, run, first_out>>

\* the program run once more, with the same options, on the table it wrote
\* (lines 112-117 of the second run)
RunAgain ==
    /\ pc = "done" /\ run = 1 /\ f_out # <<>>
    /\ rows' = f_out
    /\ first_out' = f_out
    /\ run' = 2
    /\ reasons' = NoReasons /\ seen' = {}
    /\ text_col' = 0 /\ total_input' = 0
    /\ kept_after_filter' = 0 /\ kept_after_dedupe' = 0
    /\ f_out' = <<>> /\ row_i' = 0 /\ frac' = NoFraction
    /\ pc' = "start"
    /\ UNCHANGED <<args, fnVars, splitVars>>

NextPrune ==
    \/ EmptyInput \/ OpenOutput \/ SkipShortRow \/ RejectRow
    \/ DropDuplicate \/ WriteRow \/ Summary \/ RunAgain

SpecPrune == InitPrune /\ [][NextPrune]_vars

\* the data rows read, and those written so far
DataRows == SubSeq(rows, 2, Len(rows))

Written == SubSeq(f_out, 2, Len(f_out))

InLoopOrDone == pc \in {"loop", "done"}

\* the j-th data row has the text column and passes the filter
Accepts(j) ==
    /\ DataRows[j] # <<>> /\ text_col < Len(DataRows[j])
    /\ looks_like_sentence(DataRows[j][text_col + 1], args).ok

\* the DedupeKey of a text: its normalised form, lower-cased unless
\* --dedupe-case-sensitive is set
KeyOfText(text) ==
    IF args.dedupe_case_sensitive THEN normalize_text(text)
    ELSE Lower(normalize_text(text))

\* for each of the first n data rows: whether it is accepted, and its key
AcceptTable(n) == [j \in 1..n |-> Accepts(j)]

KeyTable(n, acc) ==
    [j \in 1..n |-> IF acc[j] THEN KeyOfText(DataRows[j][text_col + 1]) ELSE <<>>]

\* the j-th data row is the first accepted one with its key
FirstOfKey(j, acc, key) ==
    acc[j] /\ \A i \in 1..(j - 1) : acc[i] => key[i] # key[j]

\* the rows to be written for the first j data rows: the first accepted row
\* of every key, in input order, with its text normalised
RECURSIVE FirstSeenRows(_, _, _)
FirstSeenRows(j, acc, key) ==
    IF j = 0 THEN <<>>
    ELSE FirstSeenRows(j - 1, acc, key) \o
            (IF FirstOfKey(j, acc, key)
             THEN <<[DataRows[j] EXCEPT
                        ![text_col + 1] = normalize_text(DataRows[j][text_col + 1])]>>
             ELSE <<>>)

\* C1: after any number of data rows, the rows written hold at most one row
\* per DedupeKey, and they are exactly the first accepted input row of each
\* key (with its text normalised), in input order: a later row with a key
\* already written is never written.
C1_FirstSeenWins ==
    InLoopOrDone =>
        /\ \A acc \in {AcceptTable(row_i)} :
              \A key \in {KeyTable(row_i, acc)} :
                  Written = FirstSeenRows(row_i, acc, key)
        /\ \A k, l \in 1..Len(Written) :
              k # l => KeyOfText(Written[k][text_col + 1])
                            # KeyOfText(Written[l][text_col + 1])

\* two accepted rows with one key were read (same text up to case only),
\* one row was written
C1_Witness ==
    /\ pc = "done" /\ run = 1 /\ ~args.dedupe_case_sensitive
    /\ Len(Written) = 1 /\ row_i = 2
    /\ Accepts(1) /\ Accepts(2)
    /\ DataRows[1][text_col + 1] # DataRows[2][text_col + 1]
    /\ normalize_text(DataRows[1][text_col + 1])
            # normalize_text(DataRows[2][text_col + 1])

\* the header row has no "text" column
HeaderLacksText ==
    rows # <<>> /\ \A i \in 1..Len(rows[1]) : rows[1][i] # "text"

\* C4 as stated: when the header row has no "text" column the run aborts
\* before anything is written, the header row included, and processes no
\* data row (stated here for a header row that has columns).
C4_Original ==
    HeaderLacksText /\ rows[1] # <<>> =>
        f_out = <<>> /\ row_i = 0 /\ reasons = NoReasons

\* C4 amended: when the header row has no "text" column the run is not
\* fatal: the third column (index 2) is taken as the text column, the
\* header row is written as it is, and every data row is processed (a row
\* with fewer than three cells is counted under missing_text_col, any other
\* is filtered and deduplicated on its third cell).
C4_FallbackColumn ==
    HeaderLacksText /\ InLoopOrDone =>
        /\ text_col = 2
        /\ f_out # <<>> /\ f_out[1] = rows[1]
        /\ (pc = "done" => row_i = Len(DataRows))
        /\ reasons["missing_text_col"] =
              Cardinality({j \in 1..row_i : Len(DataRows[j]) < 3})
        /\ \A k \in 1..Len(Written) :
              \E j \in 1..row_i :
                  /\ Len(DataRows[j]) >= 3
                  /\ Written[k][3] = normalize_text(DataRows[j][3])

\* a run on a table without a "text" column ended with a data row written
C4_Witness ==
    HeaderLacksText /\ run = 1 /\ pc = "done" /\ Len(f_out) >= 2

\* the texts of the rows of a written table
TextsOf(out) == {out[k][text_col + 1] : k \in 2..Len(out)}

SecondRunDone == run = 2 /\ pc = "done"

\* the second run kept everything: the same texts, every row ok, none
\* dropped
SecondRunKeepsAll ==
    /\ f_out = first_out
    /\ TextsOf(f_out) = TextsOf(first_out)
    /\ reasons = [NoReasons EXCEPT !["ok"] = Len(first_out) - 1]
    /\ kept_after_filter = Len(first_out) - 1
    /\ kept_after_dedupe = Len(first_out) - 1

\* C5 as stated: a second run, with the same options, on the output of a
\* first run keeps exactly the same texts (every row ok, none dropped by
\* the dedupe) and reports a kept fraction of 1.0 (stated here for a table
\* whose header row has columns).
C5_Original ==
    SecondRunDone /\ first_out[1] # <<>> =>
        /\ SecondRunKeepsAll
        /\ frac.den > 0 /\ frac.num = frac.den

\* C5 amended: a second run, with the same options, on the output of a
\* first run keeps exactly the same texts (every row ok, none dropped by
\* the dedupe); the kept fraction it reports is 1.0 when the first run
\* wrote at least one data row, and 0.0 when it wrote the header row alone.
C5_SecondRunFixpoint ==
    SecondRunDone =>
        /\ SecondRunKeepsAll
        /\ IF Len(first_out) > 1
           THEN frac.den > 0 /\ frac.num = frac.den
           ELSE frac.num = 0 /\ frac.den > 0

\* a second run over two rows, one of which the first run had to normalise
C5_Witness ==
    /\ SecondRunDone /\ Len(f_out) = 3 /\ frac.num = 2 /\ frac.den = 2
    /\ \E t \in TextsOf(f_out) : t \notin {r[text_col + 1] : r \in
            {q \in RowChoices : Len(q) > text_col}}

\* the sum of a reason histogram
SumReasons(counter) ==
    counter["empty"] + counter["too_short"] + counter["too_long"]
        + counter["url_or_email"] + counter["boilerplate"]
        + counter["allcaps_header"] + counter["digit_heavy"]
        + counter["missing_text_col"] + counter["ok"]

\* C10: after any prefix of the data rows every processed row has raised
\* exactly one entry of the reason histogram (the histogram sums to the
\* number of rows processed, the rows without the text column under
\* missing_text_col), reasons[ok] is kept_after_filter, kept_after_dedupe
\* is the size of the seen set and the number of data rows written, and is
\* at most kept_after_filter; a row dropped as a duplicate is counted under
\* ok and under no rejection reason (the rejection reasons sum to the rows
\* that lack the column or fail the filter).
C10_CountersConsistent ==
    InLoopOrDone =>
        \A acc \in {AcceptTable(row_i)} : \A key \in {KeyTable(row_i, acc)} :
            /\ SumReasons(reasons) = row_i
            /\ reasons["missing_text_col"] =
                  Cardinality({j \in 1..row_i :
                      DataRows[j] = <<>> \/ text_col >= Len(DataRows[j])})
            /\ reasons["ok"] = kept_after_filter
            /\ kept_after_filter = Cardinality({j \in 1..row_i : acc[j]})
            /\ kept_after_dedupe = Cardinality(seen)
            /\ kept_after_dedupe = Len(Written)
            /\ kept_after_dedupe <= kept_after_filter
            /\ kept_after_filter - kept_after_dedupe =
                  Cardinality({j \in 1..row_i :
                      acc[j] /\ ~FirstOfKey(j, acc, key)})
            /\ SumReasons(reasons) - reasons["ok"] =
                  Cardinality({j \in 1..row_i : ~acc[j]})

\* a row without the text column, an accepted row and a duplicate of it
\* were all counted
C10_Witness ==
    /\ pc = "done" /\ run = 1 /\ row_i = 3
    /\ reasons["missing_text_col"] = 1
    /\ reasons["ok"] = 2 /\ kept_after_dedupe = 1

(***************************************************************************)
(* split.py, main: every paired document is read, segmented into          *)
(* sentences, each sentence is labelled from its span and split into      *)
(* pieces, and one row is written per piece                                *)
(***************************************************************************)
MaxSents == 2

EVENT_TYPES ==
    { "Profit", "Turnover", "SalesVolume", "ShareRepurchase", "Debt",
      "QuarterlyResults", "TargetPrice", "BuyRating", "Dividend",
      "MergerAcquisition" }

\* sorted() on a set of event types: the types in code point order
EventTypesSorted ==
    << "BuyRating", "Debt", "Dividend", "MergerAcquisition", "Profit",
       "QuarterlyResults", "SalesVolume", "ShareRepurchase", "TargetPrice",
       "Turnover" >>

RECURSIVE SortedTypesFrom(_, _)
SortedTypesFrom(hit, i) ==
    IF i > Len(EventTypesSorted) THEN <<>>
    ELSE (IF EventTypesSorted[i] \in hit THEN <<EventTypesSorted[i]>> ELSE <<>>)
             \o SortedTypesFrom(hit, i + 1)

SortedTypes(hit) == SortedTypesFrom(hit, 1)

\* the spans one offsets chunk list contributes: a chunk counts when it is
\* two integers with end > start
RECURSIVE ChunkSpans(_, _, _)
ChunkSpans(ent_type, chunks, i) ==
    IF i > Len(chunks) THEN <<>>
    ELSE LET chunk == chunks[i]
             here  == IF Len(chunk.nums) = 2 /\ chunk.ints
                         /\ chunk.nums[2] > chunk.nums[1]
                      THEN << <<ent_type, chunk.nums[1], chunk.nums[2]>> >>
                      ELSE <<>>
         IN  here \o ChunkSpans(ent_type, chunks, i + 1)

\* the spans one annotation line contributes.  A line is given by its first
\* character, the number of its tab separated parts, the entity type before
\* the first space of its second part ("" when there is no such space) and
\* the ";" separated offset chunks after it
LineSpans(line) ==
    IF line.mark # "T" THEN <<>>
    ELSE IF line.parts < 2 THEN <<>>
    ELSE IF line.ent_type = "" THEN <<>>
    ELSE IF line.ent_type \notin EVENT_TYPES THEN <<>>
    ELSE ChunkSpans(line.ent_type, line.chunks, 1)

RECURSIVE parse_brat_ann_From(_, _)
parse_brat_ann_From(lines, i) ==
    IF i > Len(lines) THEN <<>>
    ELSE LineSpans(lines[i]) \o parse_brat_ann_From(lines, i + 1)

parse_brat_ann(lines) == parse_brat_ann_From(lines, 1)

\* the event types of the spans that lie wholly inside [s0, s1)
hit_types_Contained(spans, s0, s1) ==
    {spans[k][1] : k \in {n \in 1..Len(spans) :
                              s0 <= spans[n][2] /\ spans[n][3] <= s1}}

\* the event types of the spans that overlap [s0, s1)
hit_types(spans, s0, s1) ==
    {spans[k][1] : k \in {n \in 1..Len(spans) :
                              overlaps(s0, s1, spans[n][2], spans[n][3])}}

\* the segmenter: a sentence starts at offset 0 or at a token that follows
\* white space, and ends after the last non-space character before the next
\* sentence
TokenStarts(raw) ==
    {o \in 1..(Len(raw) - 1) : IsSpace(raw[o]) /\ ~IsSpace(raw[o + 1])}

RECURSIVE TrimEnd(_, _)
TrimEnd(raw, e) ==
    IF e > 0 /\ IsSpace(raw[e]) THEN TrimEnd(raw, e - 1) ELSE e

RECURSIVE SentsFrom(_, _, _)
SentsFrom(raw, start, cuts) ==
    IF cuts = {} THEN << <<start, TrimEnd(raw, Len(raw))>> >>
    ELSE LET c == CHOOSE m \in cuts : \A n \in cuts : m <= n
         IN  << <<start, TrimEnd(raw, c)>> >> \o SentsFrom(raw, c, cuts \ {c})

Segmentations(raw) ==
    {SentsFrom(raw, 0, cuts) :
        cuts \in {cs \in SUBSET TokenStarts(raw) : Cardinality(cs) < MaxSents}}

\* sent.text: the characters of the sentence span
SentText(raw, sent) == SubSeq(raw, sent[1] + 1, sent[2])

\* the paired documents, in sorted order
Pairs == <<"doc_a", "doc_b">>

SplitHeader == <<"doc", "sent_id", "text", "y_any_event", "types">>

\* "ab; cd ef" and "x. abcd"
RawDelims == <<"a","b",";"," ","c","d"," ","e","f">>

RawPlain == <<"x","."," ","a","b","c","d">>

RawChoices == {RawDelims, RawPlain}

\* "T1<TAB>Profit 0 4<TAB>..."
LineProfit ==
    [mark |-> "T", parts |-> 3, ent_type |-> "Profit",
     chunks |-> << [nums |-> <<0, 4>>, ints |-> TRUE] >>]

\* "T2<TAB>Dividend 0 2;4 6<TAB>...", a discontinuous entity
LineDividend ==
    [mark |-> "T", parts |-> 3, ent_type |-> "Dividend",
     chunks |-> << [nums |-> <<0, 2>>, ints |-> TRUE],
                   [nums |-> <<4, 6>>, ints |-> TRUE] >>]

\* "T3<TAB>Company 0 9<TAB>...", not an event type
LineCompany ==
    [mark |-> "T", parts |-> 3, ent_type |-> "Company",
     chunks |-> << [nums |-> <<0, 9>>, ints |-> TRUE] >>]

\* "R1<TAB>Rel Arg1:T1 Arg2:T2", a relation line
LineRelation ==
    [mark |-> "R", parts |-> 2, ent_type |-> "Rel",
     chunks |-> << [nums |-> <<0, 9>>, ints |-> FALSE] >>]

\* "T4<TAB>Debt 2 5<TAB>...", an entity across a sentence boundary
LineDebtAcross ==
    [mark |-> "T", parts |-> 3, ent_type |-> "Debt",
     chunks |-> << [nums |-> <<2, 5>>, ints |-> TRUE] >>]

\* "T5<TAB>Debt 3 3<TAB>", an empty span
LineDebtEmpty ==
    [mark |-> "T", parts |-> 3, ent_type |-> "Debt",
     chunks |-> << [nums |-> <<3, 3>>, ints |-> TRUE] >>]

\* "T6<TAB>Profit x 3<TAB>...", an offset that is not a number
LineProfitBad ==
    [mark |-> "T", parts |-> 3, ent_type |-> "Profit",
     chunks |-> << [nums |-> <<0, 3>>, ints |-> FALSE] >>]

\* "T7<TAB>Turnover 7<TAB>...", one offset only
LineTurnoverOne ==
    [mark |-> "T", parts |-> 3, ent_type |-> "Turnover",
     chunks |-> << [nums |-> <<7>>, ints |-> TRUE] >>]

\* "T8", no tab
LineNoTab == [mark |-> "T", parts |-> 1, ent_type |-> "", chunks |-> <<>>]

\* "T9<TAB>Debt 7 9<TAB>..."
LineDebtTail ==
    [mark |-> "T", parts |-> 3, ent_type |-> "Debt",
     chunks |-> << [nums |-> <<7, 9>>, ints |-> TRUE] >>]

\* "T10<TAB>BuyRating 7 8<TAB>..."
LineBuyRating ==
    [mark |-> "T", parts |-> 3, ent_type |-> "BuyRating",
     chunks |-> << [nums |-> <<7, 8>>, ints |-> TRUE] >>]

AnnChoices ==
    { <<>>,
      <<LineProfit>>,
      <<LineDividend, LineCompany, LineRelation, LineDebtAcross>>,
      <<LineDebtEmpty, LineProfitBad, LineTurnoverOne, LineNoTab,
        LineDebtTail, LineBuyRating>> }

PipeChoices == { {"tok2vec", "parser", "ner"}, {"senter"}, {"ner"} }

SplitArgs ==
    [min_len : {1, 4}, max_chars : {4, 20}, extra_split : BOOLEAN,
     pipe_names : PipeChoices]

NoDoc == [id |-> "", raw |-> <<>>, sents |-> <<>>, ann |-> <<>>]

InitSplit ==
    /\ sargs \in SplitArgs
    /\ doc_i = 0 /\ doc = NoDoc /\ ev_spans = <<>>
    /\ sent_i = 0 /\ sent_id = 0 /\ y = 0 /\ types_str = <<>>
    /\ pieces = <<>> /\ w_rows = <<>> /\ origin = <<>> /\ wrote = 0
    /\ spc = "start"
    /\ FnIdle /\ PruneIdle

\* the pipeline has no parser and no senter: RuntimeError
NoSegmenter ==
    /\ spc = "start"
    /\ "parser" \notin sargs.pipe_names /\ "senter" \notin sargs.pipe_names
    /\ spc' = "failed"
    /\ UNCHANGED <<sargs, doc_i, doc, ev_spans, sent_i, sent_id, y, types_str,
                   pieces, w_rows, origin, wrote>>
    /\ UNCHANGED <<fnVars, pruneVars>>

\* the output is opened and the header row written
OpenTsv ==
    /\ spc = "start"
    /\ "parser" \in sargs.pipe_names \/ "senter" \in sargs.pipe_names
    /\ wrote' = 0
    /\ w_rows' = <<SplitHeader>>
    /\ spc' = "docs"
    /\ UNCHANGED <<sargs, doc_i, doc, ev_spans, sent_i, sent_id, y, types_str,
                   pieces, origin>>
    /\ UNCHANGED <<fnVars, pruneVars>>

\* the next pair: the text is read, the annotations parsed, the text
\* segmented, and the counter reset
OpenDoc ==
    /\ spc = "docs" /\ doc_i < Len(Pairs)
    /\ \E raw \in RawChoices, lines \in AnnChoices :
         \E sents \in Segmentations(raw) :
            /\ doc' = [id |-> Pairs[doc_i + 1], raw |-> raw, sents |-> sents,
                       ann |-> lines]
            /\ ev_spans' = parse_brat_ann(lines)
    /\ doc_i' = doc_i + 1
    /\ sent_id' = 0
    /\ sent_i' = 0
    /\ spc' = "sents"
    /\ UNCHANGED <<sargs, y, types_str, pieces, w_rows, origin, wrote>>
    /\ UNCHANGED <<fnVars, pruneVars>>

\* the next sentence: its label and types from its span, then its pieces
Sentence ==
    /\ spc = "sents" /\ sent_i < Len(doc.sents)
    /\ LET sent == doc.sents[sent_i + 1]
           hit  == hit_types(ev_spans, sent[1], sent[2])
       IN  /\ y' = IF hit # {} THEN 1 ELSE 0
           /\ types_str' = SortedTypes(hit)
           /\ pieces' = split_sentence_like(SentText(doc.raw, sent),
                            sargs.min_len, sargs.max_chars, sargs.extra_split)
    /\ sent_i' = sent_i + 1
    /\ spc' = "pieces"
    /\ UNCHANGED <<sargs, doc_i, doc, ev_spans, sent_id, w_rows, origin, wrote>>
    /\ UNCHANGED <<fnVars, pruneVars>>

\* the sent_id cell of the row being written
RowSentId_SentenceIndex == sent_i - 1

RowSentId == sent_id

\* one piece is written; origin remembers where the row came from
WritePiece ==
    /\ spc = "pieces" /\ pieces # <<>>
    /\ w_rows' = Append(w_rows,
                        <<doc.id, RowSentId, Head(pieces), y, types_str>>)
    /\ origin' = Append(origin,
                        [doc |-> doc_i, sent |-> sent_i,
                         s0 |-> doc.sents[sent_i][1],
                         s1 |-> doc.sents[sent_i][2], ann |-> doc.ann])
    /\ wrote' = wrote + 1
    /\ sent_id' = sent_id + 1
    /\ pieces' = Tail(pieces)
    /\ UNCHANGED <<sargs, doc_i, doc, ev_spans, sent_i, y, types_str, spc>>
    /\ UNCHANGED <<fnVars, pruneVars>>

\* the pieces of the sentence are exhausted
EndSentence ==
    /\ spc = "pieces" /\ pieces = <<>>
    /\ spc' = "sents"
    /\ UNCHANGED <<sargs, doc_i, doc, ev_spans, sent_i, sent_id, y, types_str,
                   pieces, w_rows, origin, wrote>>
    /\ UNCHANGED <<fnVars, pruneVars>>

\* the sentences of the document are exhausted
EndDoc ==
    /\ spc = "sents" /\ sent_i = Len(doc.sents)
    /\ spc' = "docs"
    /\ UNCHANGED <<sargs, doc_i, doc, ev_spans, sent_i, sent_id, y, types_str,
                   pieces, w_rows, origin, wrote>>
    /\ UNCHANGED <<fnVars, pruneVars>>

\* the pairs are exhausted: the row count is reported
SplitDone ==
    /\ spc = "docs" /\ doc_i = Len(Pairs)
    /\ spc' = "done"
    /\ UNCHANGED <<sargs, doc_i, doc, ev_spans, sent_i, sent_id, y, types_str,
                   pieces, w_rows, origin, wrote>>
    /\ UNCHANGED <<fnVars, pruneVars>>

NextSplit ==
    \/ NoSegmenter
    \/ OpenTsv
    \/ OpenDoc
    \/ Sentence
    \/ WritePiece
    \/ EndSentence
    \/ EndDoc
    \/ SplitDone

SpecSplit == InitSplit /\ [][NextSplit]_vars

\* the data rows written so far
SplitWritten == SubSeq(w_rows, 2, Len(w_rows))

\* the event types of the entity spans of an annotation file that have a
\* character position in common with the sentence span [s0, s1)
TypesOnSpan(lines, s0, s1) ==
    LET spans == parse_brat_ann(lines)
    IN  {spans[k][1] : k \in {n \in 1..Len(spans) :
            \E q \in s0..(s1 - 1) : spans[n][2] <= q /\ q < spans[n][3]}}

\* C3: every row written for a piece of a sentence carries the label and
\* the types computed from that sentence's own span against the entity
\* spans of its document, and all the rows of one sentence carry the same
\* label and types.
C3_LabelInherited ==
    /\ Len(origin) = Len(SplitWritten)
    /\ \A k \in 1..Len(origin) :
          \A on \in {TypesOnSpan(origin[k].ann, origin[k].s0, origin[k].s1)} :
             /\ SplitWritten[k][4] = (IF on # {} THEN 1 ELSE 0)
             /\ SplitWritten[k][5] = SortedTypes(on)
    /\ \A j, k \in 1..Len(origin) :
          (origin[j].doc = origin[k].doc /\ origin[j].sent = origin[k].sent)
              => /\ SplitWritten[j][4] = SplitWritten[k][4]
                 /\ SplitWritten[j][5] = SplitWritten[k][5]

\* two pieces of one labelled sentence, of different text, next to a row of
\* an unlabelled sentence of the same document
C3_Witness ==
    /\ Len(origin) = Len(SplitWritten)
    /\ \E j, k, m \in 1..Len(origin) :
          /\ j # k
          /\ origin[j].doc = origin[k].doc /\ origin[j].sent = origin[k].sent
          /\ SplitWritten[j][3] # SplitWritten[k][3]
          /\ SplitWritten[j][4] = 1 /\ SplitWritten[k][4] = 1
          /\ Len(SplitWritten[j][5]) = 2
          /\ origin[m].doc = origin[j].doc /\ SplitWritten[m][4] = 0

\* the number of rows before row k that belong to the same document
EarlierRowsOfDoc(k) ==
    Cardinality({j \in 1..(k - 1) : SplitWritten[j][1] = SplitWritten[k][1]})

\* C6: the rows of one document carry sent_id 0, 1, 2, ... in the order
\* they were written, without gap or repeat: the counter restarts at 0 with
\* each document and advances by one with each written row, whatever the
\* number of pieces of each sentence.
C6_SentIdCountsRows ==
    /\ wrote = Len(SplitWritten)
    /\ \A k \in 1..Len(SplitWritten) : SplitWritten[k][2] = EarlierRowsOfDoc(k)
    /\ spc \in {"sents", "pieces"} =>
          sent_id = Cardinality({j \in 1..Len(SplitWritten) :
                                     SplitWritten[j][1] = doc.id})

\* a first document whose second sentence got sent_id 2, and a second
\* document that starts again at 0 and has a sentence without any piece
C6_Witness ==
    /\ spc = "done" /\ Len(origin) = Len(SplitWritten)
    /\ \E j \in 1..Len(origin) :
          /\ origin[j].doc = 1 /\ origin[j].sent = 2 /\ SplitWritten[j][2] = 2
    /\ \E k \in 1..Len(origin) : origin[k].doc = 2 /\ SplitWritten[k][2] = 0
    /\ Len(doc.sents) = 2
    /\ Cardinality({k \in 1..Len(origin) : origin[k].doc = 2}) = 1

====
